---- MODULE Spec2Model ----
(***************************************************************************)
(* Voice Inbox Server (src/src/index.ts): an HTTP handler with a health    *)
(* check (GET /), a converter (POST /convert), a CORS preflight (OPTIONS)  *)
(* and a 404 fallback.                                                     *)
(*                                                                         *)
(* JavaScript strings are sequences of one-character strings, so that      *)
(* trimming, padding, concatenation and substring search are computed.     *)
(* JavaScript values are records [t, s, n]: t the type tag, s the string   *)
(* payload, n the numeric payload.                                         *)
(***************************************************************************)
EXTENDS Integers, Sequences, FiniteSets, TLC

VARIABLES
    now,    \* the wall clock: index of the current instant in the sampled clock
    tz,     \* the process's local-time offset from UTC, in minutes
    pc,     \* pc[r]: "idle", "reading" (suspended in await request.json()), "done"
    req,    \* req[r]: the request connection r carries
    resp,   \* resp[r]: the Response the handler returned on connection r
    env,    \* history: env[r], the clock readings and engine the handler on r
            \* used, and how many convert requests had failed before it answered
    failed, \* history: how many convert requests have failed so far
    lastHealth, \* history: the body of the latest health response, or NoBody
    portEnv,    \* process.env.PORT: a string, or undefined when unset
    port        \* the module constant PORT and the port Bun.serve listens on

vars == <<now, tz, pc, req, resp, env, failed, lastHealth, portEnv, port>>

----------------------------------------------------------------------------
(* Bounds of the model *)

MaxTextLen == 2
MaxSourceLen == 1
NumClockPoints == 26
ClockStep == 61
MaxDrift == 1
MaxFailed == 2
ConcClockPoints == 3

(* the connections: one request is in flight at a time *)
Slots == {1}

(* the connections when two requests are in flight together *)
Conns == {1, 2}

----------------------------------------------------------------------------
(* Strings *)

SeqsUpTo(S, n) == UNION {[1..k -> S] : k \in 0..n}

(* the white space String.prototype.trim strips, among the characters the
   requests of this model use *)
Whitespace == {" ", "\n", "\t"}

RECURSIVE TrimStart(_)
TrimStart(s) ==
    IF Len(s) > 0 /\ Head(s) \in Whitespace THEN TrimStart(Tail(s)) ELSE s

RECURSIVE TrimEnd(_)
TrimEnd(s) ==
    IF Len(s) > 0 /\ s[Len(s)] \in Whitespace
    THEN TrimEnd(SubSeq(s, 1, Len(s) - 1))
    ELSE s

Trim(s) == TrimEnd(TrimStart(s))

Contains(s, sub) ==
    \E i \in 0..(Len(s) - Len(sub)) : SubSeq(s, i + 1, i + Len(sub)) = sub

Digits == <<"0", "1", "2", "3", "4", "5", "6", "7", "8", "9">>

RECURSIVE NumToStr(_)
NumToStr(n) ==
    IF n < 10 THEN <<Digits[n + 1]>>
    ELSE NumToStr(n \div 10) \o <<Digits[(n % 10) + 1]>>

RECURSIVE PadStart(_, _, _)
PadStart(s, len, ch) ==
    IF Len(s) >= len THEN s ELSE PadStart(<<ch>> \o s, len, ch)

RECURSIVE SplitFirst(_, _)
SplitFirst(s, sep) ==
    IF Len(s) = 0 \/ Head(s) = sep THEN <<>>
    ELSE <<Head(s)>> \o SplitFirst(Tail(s), sep)

----------------------------------------------------------------------------
(* JavaScript values, as JSON.parse produces them *)

Undefined == [t |-> "undefined", s |-> <<>>, n |-> 0]
Null == [t |-> "null", s |-> <<>>, n |-> 0]
Bool(b) == [t |-> "boolean", s |-> <<>>, n |-> IF b THEN 1 ELSE 0]
Num(k) == [t |-> "number", s |-> <<>>, n |-> k]
Str(s) == [t |-> "string", s |-> s, n |-> 0]
PlainObject == [t |-> "object", s |-> <<>>, n |-> 0]
ShadowedObject == [t |-> "object", s |-> <<>>, n |-> 1]

TypeOf(v) == IF v.t = "null" THEN "object" ELSE v.t

Truthy(v) ==
    CASE v.t = "undefined" -> FALSE
      [] v.t = "null" -> FALSE
      [] v.t = "boolean" -> v.n = 1
      [] v.t = "number" -> v.n # 0
      [] v.t = "string" -> Len(v.s) > 0
      [] OTHER -> TRUE

ObjectObject ==
  <<"[","o","b","j","e","c","t"," ","O","b","j","e","c","t","]">>

CanStringify(v) == ~(v.t = "object" /\ v.n = 1)

TemplateString(v) ==
    CASE v.t = "string" -> v.s
      [] v.t = "number" -> NumToStr(v.n)
      [] v.t = "boolean" ->
            IF v.n = 1 THEN <<"t","r","u","e">> ELSE <<"f","a","l","s","e">>
      [] v.t = "undefined" -> <<"u","n","d","e","f","i","n","e","d">>
      [] v.t = "null" -> <<"n","u","l","l">>
      [] OTHER -> ObjectObject

----------------------------------------------------------------------------
(* Date *)

Instant(i) == (20453 * 1440 + 5) + ClockStep * (i - 1)

CivilFromDays(days) ==
    LET z == days + 719468
        era == z \div 146097
        doe == z - era * 146097
        yoe == (doe - doe \div 1460 + doe \div 36524 - doe \div 146096) \div 365
        doy == doe - (365 * yoe + yoe \div 4 - yoe \div 100)
        mp == (5 * doy + 2) \div 153
        d == doy - (153 * mp + 2) \div 5 + 1
        m == IF mp < 10 THEN mp + 3 ELSE mp - 9
        y == yoe + era * 400 + (IF m <= 2 THEN 1 ELSE 0)
    IN  [year |-> y, month |-> m, day |-> d]

DateFields(minutes) ==
    LET c == CivilFromDays(minutes \div 1440)
    IN  [year |-> c.year, month |-> c.month, day |-> c.day,
         hours |-> (minutes % 1440) \div 60, minutes |-> minutes % 60]

LocalFields(d, off) == DateFields(d + off)

toISOString(d) ==
    LET f == DateFields(d)
    IN  PadStart(NumToStr(f.year), 4, "0") \o <<"-">>
        \o PadStart(NumToStr(f.month), 2, "0") \o <<"-">>
        \o PadStart(NumToStr(f.day), 2, "0") \o <<"T">>
        \o PadStart(NumToStr(f.hours), 2, "0") \o <<":">>
        \o PadStart(NumToStr(f.minutes), 2, "0")
        \o <<":", "0", "0", ".", "0", "0", "0", "Z">>

----------------------------------------------------------------------------
(* Formatting: generateTimestamp, generateFilename, generateFrontmatter,
   generateNoteContent.  Each takes the instant its own `new Date()` reads. *)

MicEmoji == "U+1F3A4"

(* the suffix with noon counted as morning *)
AmPmAfterNoon(hours) == IF hours > 12 THEN <<"p", "m">> ELSE <<"a", "m">>

AmPm(hours) == IF hours >= 12 THEN <<"p", "m">> ELSE <<"a", "m">>

(* the hour without line 46's `hours || 12` *)
Hour12NoWrap(hours) == hours % 12

Hour12(hours) == IF hours % 12 = 0 THEN 12 ELSE hours % 12

generateTimestamp(d, off) ==
    LET f == LocalFields(d, off)
        year == NumToStr(f.year)
        month == PadStart(NumToStr(f.month), 2, "0")
        day == PadStart(NumToStr(f.day), 2, "0")
        minutes == PadStart(NumToStr(f.minutes), 2, "0")
    IN  year \o <<"-">> \o month \o <<"-">> \o day \o <<" ">>
        \o NumToStr(Hour12(f.hours)) \o <<"-">> \o minutes \o AmPm(f.hours)

generateFilename(d, off) == <<MicEmoji, " ">> \o generateTimestamp(d, off)

FrontmatterHead ==
  <<"-","-","-","\n","t","y","p","e",":"," ","t","r","a","n","s","c","r",
    "i","p","t","i","o","n","\n","c","r","e","a","t","e","d",":"," ">>

FrontmatterSourceKey ==
  <<"\n","s","o","u","r","c","e",":"," ">>

FrontmatterTail ==
  <<"\n","t","e","m","p","l","a","t","e","_","v","e","r","s","i","o","n",
    ":"," ","1","\n","a","r","e","a","s",":"," ","[","]","\n","p","r","o",
    "j","e","c","t","s",":"," ","[","]","\n","s","u","m","m","a","r","y",
    ":"," ","\"","\"","\n","-","-","-">>

generateFrontmatter(source, d) ==
    LET today == SplitFirst(toISOString(d), "T")
    IN  FrontmatterHead \o today \o FrontmatterSourceKey
        \o TemplateString(source) \o FrontmatterTail

generateNoteContent(text, source, d) ==
    generateFrontmatter(source, d) \o <<"\n", "\n">> \o text \o <<"\n">>

----------------------------------------------------------------------------
(* handleConvert *)

MissingTextMessage ==
  <<"M","i","s","s","i","n","g"," ","o","r"," ","i","n","v","a","l","i","d",
    " ","\"","t","e","x","t","\""," ","f","i","e","l","d">>

EmptyTextMessage ==
  <<"T","e","x","t"," ","c","a","n","n","o","t"," ","b","e"," ","e","m","p",
    "t","y">>

FallbackMessage ==
  <<"F","a","i","l","e","d"," ","t","o"," ","p","a","r","s","e"," ","r","e",
    "q","u","e","s","t">>

DefaultSource ==
  <<"s","u","p","e","r","w","h","i","s","p","e","r">>

(* The messages of the errors the runtime throws.  Their text belongs to the
   JavaScript engine, not to the program: every engine in Runtimes is a
   possible one. *)
JscRuntime ==
    [json |-> <<"F","a","i","l","e","d"," ","t","o"," ","p","a","r","s","e",
                " ","J","S","O","N">>,
     nullRead |-> <<"n","u","l","l"," ","i","s"," ","n","o","t"," ","a","n",
                    " ","o","b","j","e","c","t"," ","(","e","v","a","l","u",
                    "a","t","i","n","g"," ","'","b","o","d","y",".","t","e",
                    "x","t","'",")">>,
     toPrimitive |-> <<"N","o"," ","d","e","f","a","u","l","t"," ","v","a",
                       "l","u","e">>]

V8Runtime ==
    [json |-> <<"U","n","e","x","p","e","c","t","e","d"," ","e","n","d"," ",
                "o","f"," ","J","S","O","N"," ","i","n","p","u","t">>,
     nullRead |-> <<"C","a","n","n","o","t"," ","r","e","a","d"," ","p","r",
                    "o","p","e","r","t","i","e","s"," ","o","f"," ","n","u",
                    "l","l"," ","(","r","e","a","d","i","n","g"," ","'","t",
                    "e","x","t","'",")">>,
     toPrimitive |-> <<"C","a","n","n","o","t"," ","c","o","n","v","e","r",
                       "t"," ","o","b","j","e","c","t"," ","t","o"," ","p",
                       "r","i","m","i","t","i","v","e"," ","v","a","l","u",
                       "e">>]

Runtimes == {JscRuntime, V8Runtime}

(* A request body: kind "invalid" (request.json() rejects), "null" (JSON
   null), "primitive" (a JSON number, string, boolean or array: no own text
   or source property) or "object" with its text and source properties (and
   any other property the client added, here created). *)
InvalidBody ==
    [kind |-> "invalid", text |-> Undefined, source |-> Undefined,
     created |-> Undefined]
NullBody ==
    [kind |-> "null", text |-> Undefined, source |-> Undefined,
     created |-> Undefined]
PrimitiveBody ==
    [kind |-> "primitive", text |-> Undefined, source |-> Undefined,
     created |-> Undefined]
ObjectBody(text, source) ==
    [kind |-> "object", text |-> text, source |-> source, created |-> Undefined]

(* an object body that also carries a created property, which ConvertRequest
   does not declare and handleConvert never reads *)
DatedBody(text, source, created) ==
    [kind |-> "object", text |-> text, source |-> source, created |-> created]

ErrorResult(message) == [success |-> FALSE, error |-> message]

(* catch (error): a thrown value is [isError, message] *)
Thrown(message) == [isError |-> TRUE, message |-> message]

(* a catch that numbers the failures in its message *)
CatchResultCounting(error) ==
    ErrorResult((IF error.isError THEN error.message ELSE FallbackMessage)
                \o <<" ", "#">> \o NumToStr(failed))

(* a catch that throws what it caught *)
CatchRethrow(error) == error

CatchResult(error) ==
    ErrorResult(IF error.isError THEN error.message ELSE FallbackMessage)

TextInvalid(text) == ~Truthy(text) \/ TypeOf(text) # "string"

(* the validation failure carrying the other check's message *)
MissingTextResultSwapped == ErrorResult(EmptyTextMessage)

MissingTextResult == ErrorResult(MissingTextMessage)

EmptyTextResult == ErrorResult(EmptyTextMessage)

(* body.text used where line 103's trimmed text is meant *)
UntrimmedText(body) == body.text.s

TrimmedText(body) == Trim(body.text.s)

(* `??` in place of line 111's `||`: the default only for undefined and null *)
SourceOrDefaultNullish(body) ==
    IF body.source.t \in {"undefined", "null"} THEN Str(DefaultSource)
    ELSE body.source

SourceOrDefault(body) ==
    IF Truthy(body.source) THEN body.source ELSE Str(DefaultSource)

(* a success result that also carries an error field *)
SuccessResultWithError(text, source, d1, d2, off) ==
    [success |-> TRUE,
     error |-> <<>>,
     noteContent |-> generateNoteContent(text, source, d1),
     filename |-> generateFilename(d2, off)]

(* the success result with a filename that carries the note's text *)
SuccessResultFilenameFromText(text, source, d1, d2, off) ==
    [success |-> TRUE,
     noteContent |-> generateNoteContent(text, source, d1),
     filename |-> generateFilename(d2, off) \o <<" ">> \o text]

SuccessResult(text, source, d1, d2, off) ==
    [success |-> TRUE,
     noteContent |-> generateNoteContent(text, source, d1),
     filename |-> generateFilename(d2, off)]

(* the try block of handleConvert: a result, or the value it throws.
   d1 is the instant generateFrontmatter reads, d2 the instant
   generateTimestamp reads afterwards; rt is the engine's error messages. *)
TryBlock(body, d1, d2, off, rt) ==
    IF body.kind = "invalid" THEN Thrown(rt.json)
    ELSE IF body.kind = "null" THEN Thrown(rt.nullRead)
    ELSE IF TextInvalid(body.text) THEN MissingTextResult
    ELSE IF Len(TrimmedText(body)) = 0 THEN EmptyTextResult
    ELSE IF ~CanStringify(SourceOrDefault(body)) THEN Thrown(rt.toPrimitive)
    ELSE SuccessResult(TrimmedText(body), SourceOrDefault(body), d1, d2, off)

IsThrown(outcome) == "isError" \in DOMAIN outcome

(* handleConvert without its try/catch: what is thrown leaves the function *)
NoCatch(outcome) == outcome

TryCatch(outcome) == IF IsThrown(outcome) THEN CatchResult(outcome) ELSE outcome

(* handleConvert taking the created date from the body when it has one *)
handleConvertRequestDate(body, d1, d2, off, rt) ==
    LET result == TryCatch(TryBlock(body, d1, d2, off, rt))
        n == Len(FrontmatterHead)
    IN  IF result.success /\ TypeOf(body.created) = "string"
        THEN [result EXCEPT !.noteContent =
                 SubSeq(@, 1, n) \o body.created.s
                 \o SubSeq(@, n + 11, Len(@))]
        ELSE result

handleConvert(body, d1, d2, off, rt) == TryCatch(TryBlock(body, d1, d2, off, rt))

----------------------------------------------------------------------------
(* handler *)

(* the CORS headers with the origin header only *)
corsHeadersOriginOnly == ("Access-Control-Allow-Origin" :> "*")

corsHeaders ==
    ("Access-Control-Allow-Origin" :> "*")
    @@ ("Access-Control-Allow-Methods" :> "GET, POST, OPTIONS")
    @@ ("Access-Control-Allow-Headers" :> "Content-Type")

jsonHeaders == corsHeaders @@ ("Content-Type" :> "application/json")

NoBody == [none |-> TRUE]

NoResponse == [status |-> 0, headers |-> <<>>, body |-> NoBody]

NoRequest == [method |-> "", pathname |-> "", body |-> InvalidBody]

(* the preflight answered on the convert path only *)
IsPreflightConvertOnly(method, pathname) ==
    method = "OPTIONS" /\ pathname = "/convert"

IsPreflight(method, pathname) == method = "OPTIONS"

(* the health check answered on the root path whatever the method *)
IsHealthAnyMethod(method, pathname) == pathname = "/"

IsHealth(method, pathname) == pathname = "/" /\ method = "GET"

(* the convert branch taken on its path whatever the method *)
IsConvertAnyMethod(method, pathname) == pathname = "/convert"

IsConvert(method, pathname) == pathname = "/convert" /\ method = "POST"

(* the preflight answered with the headers of the JSON responses *)
PreflightResponseJson ==
    [status |-> 204,
     headers |-> corsHeaders @@ ("Content-Type" :> "application/json"),
     body |-> NoBody]

PreflightResponse == [status |-> 204, headers |-> corsHeaders, body |-> NoBody]

(* a health check that reports the convert failures seen so far *)
HealthResponseDegraded(d) ==
    [status |-> IF failed > 0 THEN 503 ELSE 200, headers |-> jsonHeaders,
     body |-> [status |-> IF failed > 0 THEN "degraded" ELSE "ok",
               service |-> "voice-inbox-server",
               timestamp |-> toISOString(d)]]

(* a health check whose timestamp is printed as the filename's is *)
HealthResponseTwelveHour(d) ==
    [status |-> 200, headers |-> jsonHeaders,
     body |-> [status |-> "ok", service |-> "voice-inbox-server",
               timestamp |-> generateTimestamp(d, tz)]]

HealthResponse(d) ==
    [status |-> 200, headers |-> jsonHeaders,
     body |-> [status |-> "ok", service |-> "voice-inbox-server",
               timestamp |-> toISOString(d)]]

(* the status not derived from result.success *)
ConvertStatusAlwaysOk(result) == 200

ConvertStatus(result) == IF result.success THEN 200 ELSE 400

ConvertResponse(result) ==
    [status |-> ConvertStatus(result), headers |-> jsonHeaders, body |-> result]

(* what Bun.serve answers when the promise handler returned rejects: no
   error callback is configured at lines 200-203 *)
RejectedResponse == [status |-> 500, headers |-> <<>>, body |-> NoBody]

(* await handleConvert(request) and the Response built from its result *)
AwaitConvert(outcome) ==
    IF IsThrown(outcome) THEN RejectedResponse ELSE ConvertResponse(outcome)

(* a 404 whose body carries the message only *)
NotFoundResponsePlain ==
    [status |-> 404, headers |-> jsonHeaders,
     body |-> [error |-> <<"N","o","t"," ","f","o","u","n","d">>]]

NotFoundResponse ==
    [status |-> 404, headers |-> jsonHeaders,
     body |-> ErrorResult(<<"N","o","t"," ","f","o","u","n","d">>)]

----------------------------------------------------------------------------
(* The requests the environment sends *)

Methods == {"GET", "POST", "OPTIONS", "DELETE"}
Paths == {"/", "/convert", "/unknown"}

TextAlphabet == {"a", " ", "\n", "\t"}
SourceAlphabet == {"b", "\n"}

TextValues ==
    {Undefined, Null, Num(0), Num(7), Bool(TRUE), PlainObject}
    \cup {Str(s) : s \in SeqsUpTo(TextAlphabet, MaxTextLen)}

(* a source whose second line is a frontmatter marker *)
MarkerSource == <<"b", "\n", "-", "-", "-">>

SourceValues ==
    {Undefined, Null, Num(0), Num(7), Bool(FALSE), Bool(TRUE),
     PlainObject, ShadowedObject, Str(MarkerSource)}
    \cup {Str(s) : s \in SeqsUpTo(SourceAlphabet, MaxSourceLen)}

(* a date a client may put in its request: it differs from every date of
   the sampled clock *)
RequestDate == <<"1", "9", "9", "9", "-", "0", "1", "-", "0", "2">>

Bodies ==
    {InvalidBody, NullBody, PrimitiveBody}
    \cup {ObjectBody(t, s) : t \in TextValues, s \in SourceValues}
    \cup {DatedBody(Str(<<"a">>), s, Str(RequestDate)) :
            s \in {Undefined, Str(RequestDate)}}

(* the requests sent while two are in flight together *)
ConcBodies ==
    {InvalidBody,
     ObjectBody(Str(<<"a">>), Undefined),
     ObjectBody(Str(<<"a", "a", " ">>), Str(<<"b">>))}

ConcRequests ==
    {[method |-> "GET", pathname |-> "/", body |-> InvalidBody],
     [method |-> "OPTIONS", pathname |-> "/convert", body |-> InvalidBody],
     [method |-> "GET", pathname |-> "/unknown", body |-> InvalidBody]}
    \cup {[method |-> "POST", pathname |-> "/convert", body |-> b] :
            b \in ConcBodies}

(* Bodies sent on the routes that never read them *)
OtherBodies == {InvalidBody, ObjectBody(Str(<<"a">>), Undefined)}

Requests ==
    {[method |-> m, pathname |-> p, body |-> b] :
        m \in Methods, p \in Paths, b \in OtherBodies}
    \cup {[method |-> "POST", pathname |-> "/convert", body |-> b] : b \in Bodies}

----------------------------------------------------------------------------
(* The state machine *)

(* line 13: const PORT = process.env.PORT || 3000 *)
DefaultPort == 3000

PortOption(envValue) == IF Truthy(envValue) THEN envValue ELSE Num(DefaultPort)

(* port: the module is loading, or Bun.serve listens on port n, or Bun.serve
   threw and the process exited; read is the process.env.PORT line 13 read,
   option the value of PORT *)
Loading == [state |-> "loading", read |-> Undefined, option |-> Undefined, n |-> 0]

ListeningOn(envValue, n) ==
    [state |-> "listening", read |-> envValue,
     option |-> PortOption(envValue), n |-> n]

Exited(envValue) ==
    [state |-> "exited", read |-> envValue,
     option |-> PortOption(envValue), n |-> 0]

TzOffsets == {-480, 0, 600}

(* what env[r] holds while the handler on r has read nothing *)
NoEnv == [d1 |-> 0, d2 |-> 0, rt |-> JscRuntime, after |-> 0, prev |-> NoBody]

EnvAt(d1, d2, rt) ==
    [d1 |-> d1, d2 |-> d2, rt |-> rt, after |-> failed, prev |-> lastHealth]

InitOn(conns, starts, offsets) ==
    /\ now \in starts
    /\ tz \in offsets
    /\ pc = [r \in conns |-> "idle"]
    /\ req = [r \in conns |-> NoRequest]
    /\ resp = [r \in conns |-> NoResponse]
    /\ env = [r \in conns |-> NoEnv]
    /\ failed = 0
    /\ lastHealth = NoBody
    /\ portEnv = Undefined
    /\ port = ListeningOn(Undefined, DefaultPort)

Init == InitOn(Slots, 1..NumClockPoints, TzOffsets)

(* the body kept in one place shared by all handlers: a resuming handler
   finds the body of the last connection still reading *)
SharedBody(r) ==
    LET reading == {o \in DOMAIN req : pc[o] = "reading"}
    IN  req[CHOOSE o \in reading : \A p \in reading : o >= p].body

(* the body await request.json() reads: that of the handler's own request *)
OwnBody(r) == req[r].body

(* handler called with request q, from its call to its return or to its
   suspension in await request.json(); track says whether the history
   variables are kept *)
HandleReq(r, q, track) ==
    /\ pc[r] = "idle"
    /\ req' = [req EXCEPT ![r] = q]
    /\ IF IsPreflight(q.method, q.pathname)
       THEN /\ resp' = [resp EXCEPT ![r] = PreflightResponse]
            /\ pc' = [pc EXCEPT ![r] = "done"]
            /\ env' = IF track
                      THEN [env EXCEPT ![r] = EnvAt(0, 0, JscRuntime)]
                      ELSE env
       ELSE IF IsHealth(q.method, q.pathname)
       THEN /\ resp' = [resp EXCEPT ![r] = HealthResponse(Instant(now))]
            /\ pc' = [pc EXCEPT ![r] = "done"]
            /\ env' = IF track
                      THEN [env EXCEPT ![r] = EnvAt(now, now, JscRuntime)]
                      ELSE env
       ELSE IF IsConvert(q.method, q.pathname)
       THEN /\ resp' = resp
            /\ pc' = [pc EXCEPT ![r] = "reading"]
            /\ env' = env
       ELSE /\ resp' = [resp EXCEPT ![r] = NotFoundResponse]
            /\ pc' = [pc EXCEPT ![r] = "done"]
            /\ env' = IF track
                      THEN [env EXCEPT ![r] = EnvAt(0, 0, JscRuntime)]
                      ELSE env
    /\ lastHealth' = IF track /\ ~IsPreflight(q.method, q.pathname)
                        /\ IsHealth(q.method, q.pathname)
                     THEN HealthResponse(Instant(now)).body
                     ELSE lastHealth
    /\ UNCHANGED <<now, tz, failed, portEnv, port>>

(* handleConvert resumes with the body read, and handler builds the Response;
   the clock may advance between the two `new Date()` reads, up to the
   instant numbered last *)
ResumeOn(r, track, last) ==
    /\ pc[r] = "reading"
    /\ \E rt \in Runtimes, dt \in 0..MaxDrift :
        LET outcome == handleConvert(OwnBody(r), Instant(now),
                                     Instant(now + dt), tz, rt)
        IN  /\ now + dt <= last
            /\ resp' = [resp EXCEPT ![r] = AwaitConvert(outcome)]
            /\ now' = now + dt
            /\ env' = IF track
                      THEN [env EXCEPT ![r] = EnvAt(now, now + dt, rt)]
                      ELSE env
            /\ failed' = IF track /\ failed < MaxFailed
                            /\ (IsThrown(outcome) \/ ~outcome.success)
                         THEN failed + 1
                         ELSE failed
    /\ pc' = [pc EXCEPT ![r] = "done"]
    /\ UNCHANGED <<tz, req, lastHealth, portEnv, port>>

Handle(r) == \E q \in Requests : HandleReq(r, q, FALSE)

Resume(r) == ResumeOn(r, FALSE, NumClockPoints)

(* the Response is written to the client and the connection is free again *)
Deliver(r) ==
    /\ pc[r] = "done"
    /\ pc' = [pc EXCEPT ![r] = "idle"]
    /\ req' = [req EXCEPT ![r] = NoRequest]
    /\ resp' = [resp EXCEPT ![r] = NoResponse]
    /\ env' = [env EXCEPT ![r] = NoEnv]
    /\ UNCHANGED <<now, tz, failed, lastHealth, portEnv, port>>

(* time passes, up to the instant numbered last; a finished Response is
   delivered before the next tick is observed *)
TickTo(last) ==
    /\ now < last
    /\ \A r \in DOMAIN pc : pc[r] # "done"
    /\ now' = now + 1
    /\ UNCHANGED <<tz, pc, req, resp, env, failed, lastHealth, portEnv, port>>

Tick == TickTo(NumClockPoints)

Next ==
    \/ \E r \in Slots : Handle(r)
    \/ \E r \in Slots : Resume(r)
    \/ \E r \in Slots : Deliver(r)
    \/ Tick

Spec == Init /\ [][Next]_vars

(* Two connections served together, with the history kept: a request may
   arrive, and a suspended handleConvert may resume, while the other
   connection is at any point of its own handling. *)
(* the offsets of the process while two connections are served: UTC and
   one other *)
ConcTzOffsets == {0, 600}

ConcInit == InitOn(Conns, {1}, ConcTzOffsets)

ConcHandle(r) == \E q \in ConcRequests : HandleReq(r, q, TRUE)

ConcResume(r) == ResumeOn(r, TRUE, ConcClockPoints)

ConcTick == TickTo(ConcClockPoints)

ConcNext ==
    \/ \E r \in Conns : ConcHandle(r)
    \/ \E r \in Conns : ConcResume(r)
    \/ \E r \in Conns : Deliver(r)
    \/ ConcTick

SpecConc == ConcInit /\ [][ConcNext]_vars

----------------------------------------------------------------------------
(* Vocabulary of the properties *)

ConvertDone(r) ==
    pc[r] = "done" /\ req[r].method = "POST" /\ req[r].pathname = "/convert"

ConvertOk(r) == ConvertDone(r) /\ resp[r].body.success

StartsWith(s, pre) == Len(s) >= Len(pre) /\ SubSeq(s, 1, Len(pre)) = pre

IsDigit(c) == \E i \in 1..10 : Digits[i] = c

DigitVal(c) == (CHOOSE i \in 1..10 : Digits[i] = c) - 1

AllDigits(s) == \A i \in 1..Len(s) : IsDigit(s[i])

TwoDigitVal(s) == 10 * DigitVal(s[1]) + DigitVal(s[2])

RECURSIVE SplitLines(_)
SplitLines(s) ==
    LET first == SplitFirst(s, "\n")
    IN  IF Len(first) = Len(s) THEN <<s>>
        ELSE <<first>> \o SplitLines(SubSeq(s, Len(first) + 2, Len(s)))

(* t is raw without its leading and trailing whitespace *)
IsTrimOf(t, raw) ==
    \E i \in 1..(Len(raw) + 1) :
        /\ i + Len(t) - 1 <= Len(raw)
        /\ t = SubSeq(raw, i, i + Len(t) - 1)
        /\ \A k \in 1..Len(raw) :
              (k < i \/ k > i + Len(t) - 1) => raw[k] \in Whitespace
        /\ Len(t) > 0 => (t[1] \notin Whitespace /\ t[Len(t)] \notin Whitespace)

----------------------------------------------------------------------------
(* C1: on POST /convert the status is 200 exactly when the body has
   success = true, 400 exactly when it has success = false, and is never
   anything else. *)
C1_StatusMatchesSuccess ==
    \A r \in Slots : ConvertDone(r) =>
        /\ resp[r].status \in {200, 400}
        /\ (resp[r].status = 200) <=> (resp[r].body.success = TRUE)
        /\ (resp[r].status = 400) <=> (resp[r].body.success = FALSE)

C1_Witness ==
    \E r \in Slots : ConvertDone(r) /\ resp[r].body.success /\ resp[r].status = 200

(* C2: a parsed body whose text is missing, null, a number, an object or any
   other non-string gets 400, success = false and an error message
   containing "text". *)
C2_NonStringTextError ==
    \A r \in Slots :
        (/\ ConvertDone(r)
         /\ req[r].body.kind \in {"object", "primitive"}
         /\ req[r].body.text.t # "string")
        => /\ resp[r].status = 400
           /\ resp[r].body.success = FALSE
           /\ Contains(resp[r].body.error, <<"t", "e", "x", "t">>)

C2_Witness ==
    \E r \in Slots :
        /\ ConvertDone(r)
        /\ req[r].body.kind = "object"
        /\ req[r].body.text = Num(7)
        /\ resp[r].status = 400

(* C3: a text that is a string and trims to the empty string ("" included)
   gets 400, success = false and an error message containing "empty". *)
C3_BlankTextError ==
    \A r \in Slots :
        (/\ ConvertDone(r)
         /\ req[r].body.kind = "object"
         /\ req[r].body.text.t = "string"
         /\ IsTrimOf(<<>>, req[r].body.text.s))
        => /\ resp[r].status = 400
           /\ resp[r].body.success = FALSE
           /\ Contains(resp[r].body.error, <<"e", "m", "p", "t", "y">>)

(* C4: the checks run in the order parse, text is a string, trimmed text is
   non-empty, and the first failing check alone decides the error: an
   unparseable body gets the parse error, a parseable body without a string
   text gets the "text" error, a string text that trims to nothing gets the
   "empty" error, and only a string text gets the "empty" error. *)
C4_FirstFailingCheckWins ==
    \A r \in Slots : ConvertDone(r) =>
        LET b == req[r].body
            hasStringText == b.kind = "object" /\ b.text.t = "string"
            out == resp[r].body
        IN  /\ b.kind = "invalid" =>
                /\ ~out.success
                /\ \E rt \in Runtimes : out.error = rt.json
            /\ (b.kind # "invalid" /\ ~hasStringText) =>
                /\ ~out.success
                /\ out.error = MissingTextMessage
            /\ (hasStringText /\ IsTrimOf(<<>>, b.text.s)) =>
                /\ ~out.success
                /\ out.error = EmptyTextMessage
            /\ (~out.success /\ out.error = EmptyTextMessage) => hasStringText

(* C5: a convert result is either {success: true, noteContent, filename}
   without an error field, or {success: false, error} with a string error
   and neither noteContent nor filename. *)
C5_ExactlyOneShape ==
    \A r \in Slots : ConvertDone(r) =>
        LET out == resp[r].body
        IN  \/ /\ out.success = TRUE
               /\ DOMAIN out = {"success", "noteContent", "filename"}
            \/ /\ out.success = FALSE
               /\ DOMAIN out = {"success", "error"}
               /\ DOMAIN out.error = 1..Len(out.error)

C5_Witness ==
    \E r \in Slots :
        /\ ConvertDone(r)
        /\ ~resp[r].body.success
        /\ req[r].body.kind = "invalid"

(* C6: on success noteContent is the frontmatter block, a blank line, the
   submitted text without its leading and trailing whitespace, and one
   trailing newline. *)
C6_NoteContentLayout ==
    \A r \in Slots : ConvertOk(r) =>
        LET n == resp[r].body.noteContent
            raw == req[r].body.text.s
        IN  \E k \in 1..Len(raw) :
                LET bodyText == SubSeq(n, Len(n) - k, Len(n) - 1)
                    fm == SubSeq(n, 1, Len(n) - k - 3)
                IN  /\ Len(n) >= k + 3 + 8
                    /\ IsTrimOf(bodyText, raw)
                    /\ n[Len(n)] = "\n"
                    /\ SubSeq(n, Len(n) - k - 2, Len(n) - k - 1) = <<"\n", "\n">>
                    /\ StartsWith(fm, <<"-", "-", "-", "\n">>)
                    /\ SubSeq(fm, Len(fm) - 3, Len(fm)) = <<"\n", "-", "-", "-">>

C6_Witness ==
    \E r \in Slots :
        /\ ConvertOk(r)
        /\ req[r].body.text.s = <<" ", "a">>

(* C7: on success the source entry of the frontmatter, between the created
   line and the template_version line, holds body.source (as the template
   prints it) when it is present and truthy, and "superwhisper" otherwise. *)
C7_SourceOrDefault ==
    \A r \in Slots : ConvertOk(r) =>
        LET n == resp[r].body.noteContent
            src == req[r].body.source
            falsy == \/ src.t \in {"undefined", "null"}
                     \/ src = Str(<<>>)
                     \/ src = Num(0)
                     \/ src = Bool(FALSE)
            expected == IF falsy
                        THEN <<"s","u","p","e","r","w","h","i","s","p","e","r">>
                        ELSE TemplateString(src)
            at == 43
        IN  /\ SubSeq(n, at + 1, at + 9) = <<"\n","s","o","u","r","c","e",":"," ">>
            /\ SubSeq(n, at + 10, at + 9 + Len(expected)) = expected
            /\ SubSeq(n, at + 10 + Len(expected), at + 27 + Len(expected))
                 = <<"\n","t","e","m","p","l","a","t","e","_","v","e","r","s",
                     "i","o","n",":">>

C7_Witness ==
    \E r \in Slots :
        /\ ConvertOk(r)
        /\ req[r].body.source = Str(<<>>)
        /\ Contains(resp[r].body.noteContent,
                    <<"s","o","u","r","c","e",":"," ","s","u","p","e","r">>)

(* C8: on success the frontmatter is, line by line, '---', type:
   transcription, created: <date>, source: <source>, template_version: 1,
   areas: [], projects: [], summary: "", '---': the seven keys once each in
   that order between two marker lines. *)
C8_FrontmatterLines ==
    \A r \in Slots : ConvertOk(r) =>
        LET n == resp[r].body.noteContent
            fm == SubSeq(n, 1, Len(n) - Len(Trim(req[r].body.text.s)) - 3)
            lines == SplitLines(fm)
        IN  /\ Len(lines) = 9
            /\ lines[1] = <<"-", "-", "-">>
            /\ lines[2] = <<"t","y","p","e",":"," ","t","r","a","n","s","c",
                            "r","i","p","t","i","o","n">>
            /\ StartsWith(lines[3], <<"c","r","e","a","t","e","d",":"," ">>)
            /\ StartsWith(lines[4], <<"s","o","u","r","c","e",":"," ">>)
            /\ lines[5] = <<"t","e","m","p","l","a","t","e","_","v","e","r",
                            "s","i","o","n",":"," ","1">>
            /\ lines[6] = <<"a","r","e","a","s",":"," ","[","]">>
            /\ lines[7] = <<"p","r","o","j","e","c","t","s",":"," ","[","]">>
            /\ lines[8] = <<"s","u","m","m","a","r","y",":"," ","\"","\"">>
            /\ lines[9] = <<"-", "-", "-">>

(* C9: on success the filename is the emoji marker, a space and
   YYYY-MM-DD H-MMam|pm: month, day and minutes of two digits, the hour in
   1..12 without a leading zero, the suffix am or pm. *)
C9_FilenameFormat ==
    \A r \in Slots : ConvertOk(r) =>
        LET f == resp[r].body.filename
            hourLen == Len(f) - 18
            hour == SubSeq(f, 14, 13 + hourLen)
            rest == SubSeq(f, 14 + hourLen, Len(f))
        IN  /\ hourLen \in {1, 2}
            /\ f[1] = "U+1F3A4" /\ f[2] = " "
            /\ AllDigits(SubSeq(f, 3, 6))
            /\ f[7] = "-"
            /\ AllDigits(SubSeq(f, 8, 9)) /\ TwoDigitVal(SubSeq(f, 8, 9)) \in 1..12
            /\ f[10] = "-"
            /\ AllDigits(SubSeq(f, 11, 12)) /\ TwoDigitVal(SubSeq(f, 11, 12)) \in 1..31
            /\ f[13] = " "
            /\ AllDigits(hour)
            /\ hour[1] # "0"
            /\ hourLen = 2 => TwoDigitVal(hour) \in 10..12
            /\ rest[1] = "-"
            /\ AllDigits(SubSeq(rest, 2, 3)) /\ TwoDigitVal(SubSeq(rest, 2, 3)) \in 0..59
            /\ rest[4] \in {"a", "p"}
            /\ rest[5] = "m"

C9_Witness ==
    \E r \in Slots :
        /\ ConvertOk(r)
        /\ SubSeq(resp[r].body.filename, 14, 16) = <<"1", "2", "-">>
        /\ SubSeq(resp[r].body.filename, 19, 20) = <<"a", "m">>

(* C10: an OPTIONS request gets 204 with no body on every path; it never
   runs the health check or convert and never gets 404. *)
C10_PreflightFirst ==
    \A r \in Slots : req[r].method = "OPTIONS" =>
        /\ pc[r] # "reading"
        /\ pc[r] = "done" =>
            /\ resp[r].status = 204
            /\ resp[r].body = NoBody

C10_Witness ==
    \E r \in Slots :
        /\ pc[r] = "done"
        /\ req[r].method = "OPTIONS"
        /\ req[r].pathname = "/unknown"
        /\ resp[r].status = 204

(* C11: a request that is not OPTIONS, not GET / and not POST /convert gets
   404 with the body {success: false, error: "Not found"}. *)
C11_NotFound ==
    \A r \in Slots :
        (/\ pc[r] = "done"
         /\ req[r].method # "OPTIONS"
         /\ ~(req[r].method = "GET" /\ req[r].pathname = "/")
         /\ ~(req[r].method = "POST" /\ req[r].pathname = "/convert"))
        => /\ resp[r].status = 404
           /\ resp[r].body =
                [success |-> FALSE,
                 error |-> <<"N", "o", "t", " ", "f", "o", "u", "n", "d">>]

C11_Witness ==
    \E r \in Slots :
        /\ pc[r] = "done"
        /\ req[r].method = "POST"
        /\ req[r].pathname = "/"
        /\ resp[r].status = 404

(* C12: every response, on every branch and status, carries the three CORS
   headers with their values. *)
C12_CorsEverywhere ==
    \A r \in Slots : pc[r] = "done" =>
        LET h == resp[r].headers
        IN  /\ {"Access-Control-Allow-Origin", "Access-Control-Allow-Methods",
                "Access-Control-Allow-Headers"} \subseteq DOMAIN h
            /\ h["Access-Control-Allow-Origin"] = "*"
            /\ h["Access-Control-Allow-Methods"] = "GET, POST, OPTIONS"
            /\ h["Access-Control-Allow-Headers"] = "Content-Type"

C12_Witness ==
    \E r \in Slots :
        /\ pc[r] = "done"
        /\ resp[r].status = 400
        /\ "Access-Control-Allow-Headers" \in DOMAIN resp[r].headers

(* C13: every response but the preflight's carries Content-Type:
   application/json; the 204 preflight response carries the three CORS
   headers only and no body. *)
C13_ContentType ==
    \A r \in Slots : pc[r] = "done" =>
        LET h == resp[r].headers
        IN  IF req[r].method = "OPTIONS"
            THEN /\ resp[r].status = 204
                 /\ DOMAIN h = {"Access-Control-Allow-Origin",
                                "Access-Control-Allow-Methods",
                                "Access-Control-Allow-Headers"}
                 /\ resp[r].body = NoBody
            ELSE /\ "Content-Type" \in DOMAIN h
                 /\ h["Content-Type"] = "application/json"

C13_Witness ==
    \E r \in Slots :
        /\ pc[r] = "done"
        /\ req[r].method = "OPTIONS"
        /\ "Content-Type" \notin DOMAIN resp[r].headers

(* C14: a POST /convert whose body is not valid JSON gets 400 with
   success = false; the failure does not stop the server: a request handled
   after one has failed is answered, and a well-formed one is answered 200. *)
C14_MalformedJson ==
    \A r \in Conns :
        /\ (ConvertDone(r) /\ req[r].body.kind = "invalid") =>
              /\ resp[r].status = 400
              /\ "success" \in DOMAIN resp[r].body
              /\ resp[r].body.success = FALSE
        /\ (pc[r] = "done" /\ env[r].after >= 1) =>
              /\ resp[r] # NoResponse
              /\ resp[r].status \in {200, 204, 400, 404}
              /\ (ConvertDone(r) /\ req[r].body.kind = "object") =>
                    /\ resp[r].status = 200
                    /\ resp[r].body.success = TRUE
              /\ IsHealth(req[r].method, req[r].pathname) =>
                    resp[r].status = 200

(* a request answered 200 after a malformed body had been answered 400 *)
C14_Witness ==
    \E r \in Conns :
        /\ pc[r] = "done"
        /\ resp[r].status = 200
        /\ env[r].after >= 1

(* C15: whatever requests came before, failed convert requests included, a
   GET on the root path is answered 200 with status "ok" and service
   "voice-inbox-server". *)
C15_HealthAlwaysOk ==
    \A r \in Conns :
        (pc[r] = "done" /\ IsHealth(req[r].method, req[r].pathname)) =>
            /\ resp[r].status = 200
            /\ resp[r].body.status = "ok"
            /\ resp[r].body.service = "voice-inbox-server"

(* a health check answered after two convert requests had failed *)
C15_Witness ==
    \E r \in Conns :
        /\ pc[r] = "done"
        /\ IsHealth(req[r].method, req[r].pathname)
        /\ env[r].after >= 2
        /\ resp[r].body.status = "ok"

HasSuccessBoolean(body) ==
    /\ body # NoBody
    /\ "success" \in DOMAIN body
    /\ body.success \in BOOLEAN

(* C16 as stated: every response, on every route and status, has a body
   with a boolean success field. *)
C16_SuccessEverywhere ==
    \A r \in Slots : pc[r] = "done" => HasSuccessBoolean(resp[r].body)

(* C16 amended: the responses to POST /convert and the 404 responses have a
   body with a boolean success field, true exactly on status 200; the health
   response has status, service and timestamp and no success field; the
   preflight response has no body. *)
C16_SuccessOnConvertAndNotFound ==
    \A r \in Slots :
        pc[r] = "done" =>
            /\ resp[r].status \in {200, 204, 400, 404}
            /\ IsPreflight(req[r].method, req[r].pathname) <=>
                  resp[r].body = NoBody
            /\ IsPreflight(req[r].method, req[r].pathname) <=>
                  resp[r].status = 204
            /\ (resp[r].body # NoBody
                  /\ IsHealth(req[r].method, req[r].pathname)) =>
                  DOMAIN resp[r].body = {"status", "service", "timestamp"}
            /\ (resp[r].body # NoBody
                  /\ ~IsHealth(req[r].method, req[r].pathname)) =>
                  /\ HasSuccessBoolean(resp[r].body)
                  /\ resp[r].body.success <=> resp[r].status = 200
            /\ resp[r].status = 404 =>
                  /\ HasSuccessBoolean(resp[r].body)
                  /\ resp[r].body.success = FALSE

(* a 404 answered with success = false *)
C16_Witness ==
    \E r \in Slots :
        /\ pc[r] = "done"
        /\ resp[r].status = 404
        /\ HasSuccessBoolean(resp[r].body)

(* the response to request q handled alone with clock readings e *)
SoloResponse(q, e) ==
    IF IsPreflight(q.method, q.pathname) THEN PreflightResponse
    ELSE IF IsHealth(q.method, q.pathname) THEN HealthResponse(Instant(e.d1))
    ELSE IF IsConvert(q.method, q.pathname)
         THEN AwaitConvert(handleConvert(q.body, Instant(e.d1), Instant(e.d2),
                                         tz, e.rt))
         ELSE NotFoundResponse

OwnState(r) == <<pc[r], req[r], resp[r], env[r]>>

(* C17: with requests interleaving at the body read, each response is the one
   the request would get alone, a function of its method, path and body and
   of the clock; a step of one request changes nothing of another. *)
C17_Isolation ==
    /\ [](\A r \in Conns :
            pc[r] = "done" => resp[r] = SoloResponse(req[r], env[r]))
    /\ [][\A r, o \in Conns :
            (r # o /\ OwnState(r)' # OwnState(r)) => OwnState(o)' = OwnState(o)
         ]_vars

(* two conversions in flight at once, answered with different bodies *)
C17_Witness ==
    /\ ConvertOk(1)
    /\ ConvertOk(2)
    /\ req[1].body # req[2].body
    /\ resp[1].body.noteContent # resp[2].body.noteContent

SameClock(r1, r2) ==
    /\ env[r1].d1 = env[r2].d1
    /\ env[r1].d2 = env[r2].d2
    /\ env[r1].rt = env[r2].rt

(* C18: the filename of a successful conversion is a function of the clock
   reading alone: two successful conversions that read the same clock value
   return the same filename whatever their text and source. *)
C18_FilenameFromClockOnly ==
    \A r1, r2 \in Conns :
        (ConvertOk(r1) /\ ConvertOk(r2) /\ env[r1].d2 = env[r2].d2) =>
            resp[r1].body.filename = resp[r2].body.filename

(* two conversions of different text and source at one clock value *)
C18_Witness ==
    /\ ConvertOk(1)
    /\ ConvertOk(2)
    /\ env[1].d2 = env[2].d2
    /\ req[1].body.text # req[2].body.text
    /\ req[1].body.source # req[2].body.source
    /\ resp[1].body.filename = resp[2].body.filename

(* C19: two requests with the same method, path and body handled with the
   same clock readings get the same status, headers and body, whatever was
   handled before either of them. *)
C19_Deterministic ==
    \A r1, r2 \in Conns :
        (pc[r1] = "done" /\ pc[r2] = "done" /\ req[r1] = req[r2]
            /\ SameClock(r1, r2)) =>
            /\ resp[r1].status = resp[r2].status
            /\ resp[r1].headers = resp[r2].headers
            /\ resp[r1].body = resp[r2].body

(* the same malformed request twice at one clock value, the second handled
   after the first had failed *)
C19_Witness ==
    /\ ConvertDone(1)
    /\ ConvertDone(2)
    /\ req[1] = req[2]
    /\ SameClock(1, 2)
    /\ env[1].after # env[2].after
    /\ resp[1] = resp[2]

(* the UTC calendar date of an instant within the clock points, by hand:
   day 20453 of the epoch is 2025-12-31 *)
ExpectedDate(d) ==
    IF d \div 1440 = 20453
    THEN <<"2", "0", "2", "5", "-", "1", "2", "-", "3", "1">>
    ELSE IF d \div 1440 = 20454
         THEN <<"2", "0", "2", "6", "-", "0", "1", "-", "0", "1">>
         ELSE <<>>

CreatedField(noteContent) ==
    SubSeq(noteContent, Len(FrontmatterHead) + 1, Len(FrontmatterHead) + 10)

(* C20: the created field is the YYYY-MM-DD calendar date (in UTC, as
   toISOString prints it) of the server clock when the request is processed,
   also when the request carries a created property or a date as source. *)
C20_CreatedIsServerDate ==
    \A r \in Slots :
        ConvertOk(r) =>
            /\ StartsWith(resp[r].body.noteContent, FrontmatterHead)
            /\ resp[r].body.noteContent[Len(FrontmatterHead) + 11] = "\n"
            /\ \E dt \in 0..MaxDrift :
                  /\ now - dt >= 1
                  /\ CreatedField(resp[r].body.noteContent)
                        = ExpectedDate(Instant(now - dt))

(* a request carrying its own created date, answered with the server's *)
C20_Witness ==
    \E r \in Slots :
        /\ ConvertOk(r)
        /\ req[r].body.created = Str(RequestDate)
        /\ req[r].body.source = Str(RequestDate)
        /\ CreatedField(resp[r].body.noteContent) # RequestDate
        /\ CreatedField(resp[r].body.noteContent) = ExpectedDate(Instant(now))

(* the characters of the timestamps, in code unit order *)
AsciiOrder ==
    <<" ", "-", ".", "0", "1", "2", "3", "4", "5", "6", "7", "8", "9", ":",
      "T", "Z", "a", "m", "p">>

CharRank(c) == CHOOSE i \in 1..Len(AsciiOrder) : AsciiOrder[i] = c

(* s <= t as JavaScript compares strings *)
RECURSIVE LexLeq(_, _)
LexLeq(s, t) ==
    IF Len(s) = 0 THEN TRUE
    ELSE IF Len(t) = 0 THEN FALSE
    ELSE IF Head(s) = Head(t) THEN LexLeq(Tail(s), Tail(t))
    ELSE CharRank(Head(s)) < CharRank(Head(t))

(* C21: every health check returns the status and service the one before
   it returned, and a timestamp that is not earlier than the one before. *)
C21_HealthRepeatable ==
    \A r \in Conns :
        (pc[r] = "done" /\ IsHealth(req[r].method, req[r].pathname)
            /\ env[r].prev # NoBody) =>
            /\ resp[r].body.status = env[r].prev.status
            /\ resp[r].body.service = env[r].prev.service
            /\ LexLeq(env[r].prev.timestamp, resp[r].body.timestamp)

(* a health check answered at a later clock value than the one before *)
C21_Witness ==
    \E r \in Conns :
        /\ pc[r] = "done"
        /\ IsHealth(req[r].method, req[r].pathname)
        /\ env[r].prev # NoBody
        /\ env[r].prev.timestamp # resp[r].body.timestamp
        /\ LexLeq(env[r].prev.timestamp, resp[r].body.timestamp)

----------------------------------------------------------------------------
(* Startup: line 13 reads process.env.PORT once, lines 200-203 hand PORT to
   Bun.serve. *)

(* values of process.env.PORT: unset, empty, a port, and strings that are
   not a port number *)
PortEnvValues ==
    {Undefined, Str(<<>>), Str(<<"8", "0", "8", "0">>), Str(<<"a", "b", "c">>),
     Str(<<"9", "9", "9", "9", "9">>), Str(<<"-", "1">>)}

RECURSIVE DecimalValue(_)
DecimalValue(s) ==
    IF Len(s) = 0 THEN 0
    ELSE 10 * DecimalValue(SubSeq(s, 1, Len(s) - 1)) + DigitVal(s[Len(s)])

IsPortNumber(v) ==
    /\ v.t = "string"
    /\ Len(v.s) \in 1..5
    /\ AllDigits(v.s)
    /\ DecimalValue(v.s) \in 1..65535

(* the ports the system may assign when asked for port 0 *)
EphemeralPorts == {49152, 49153}

(* Bun.serve({port: option}): the ports it may listen on; the empty set
   stands for its throwing.  A number or a string of a port number is
   taken as it is.  For any other string the runtime, which is not part of
   this repository, either throws, or coerces the string to an integer and
   clamps it to 0..65535, port 0 being assigned by the system. *)
BunServePorts(option) ==
    IF option.t = "number" THEN {option.n}
    ELSE IF IsPortNumber(option) THEN {DecimalValue(option.s)}
    ELSE IF Len(option.s) > 0 /\ AllDigits(option.s)
              /\ DecimalValue(option.s) > 65535
         THEN {65535}
         ELSE EphemeralPorts

BunServeMayThrow(option) == option.t = "string" /\ ~IsPortNumber(option)

(* the module is evaluated: PORT is computed and Bun.serve called *)
Start ==
    /\ port.state = "loading"
    /\ \/ \E n \in BunServePorts(PortOption(portEnv)) :
            port' = ListeningOn(portEnv, n)
       \/ /\ BunServeMayThrow(PortOption(portEnv))
          /\ port' = Exited(portEnv)
    /\ UNCHANGED <<now, tz, pc, req, resp, env, failed, lastHealth, portEnv>>

(* the environment variable changes while the process runs *)
SetPortEnv ==
    /\ port.state = "listening"
    /\ portEnv' \in PortEnvValues \ {portEnv}
    /\ UNCHANGED <<now, tz, pc, req, resp, env, failed, lastHealth, port>>

BootInit ==
    /\ now = 1
    /\ tz \in TzOffsets
    /\ pc = [r \in Slots |-> "idle"]
    /\ req = [r \in Slots |-> NoRequest]
    /\ resp = [r \in Slots |-> NoResponse]
    /\ env = [r \in Slots |-> NoEnv]
    /\ failed = 0
    /\ lastHealth = NoBody
    /\ portEnv \in PortEnvValues
    /\ port = Loading

BootHandle(r) ==
    /\ port.state = "listening"
    /\ \E q \in ConcRequests : HandleReq(r, q, FALSE)

BootResume(r) == ResumeOn(r, FALSE, ConcClockPoints)

BootTick == port.state = "listening" /\ TickTo(ConcClockPoints)

BootNext ==
    \/ Start
    \/ SetPortEnv
    \/ \E r \in Slots : BootHandle(r)
    \/ \E r \in Slots : BootResume(r)
    \/ \E r \in Slots : Deliver(r)
    \/ BootTick

SpecBoot == BootInit /\ [][BootNext]_vars

(* the port the configuration rule asks for *)
ExpectedPort(envValue) ==
    IF IsPortNumber(envValue) THEN DecimalValue(envValue.s) ELSE DefaultPort

(* C22: once started the server listens on the port PORT names, and on 3000
   when PORT was unset or not a valid port number at startup; a later change
   of the variable changes nothing. *)
C22_PortOrDefault ==
    port.state # "loading" =>
        /\ port.state = "listening"
        /\ port.n = ExpectedPort(port.read)

(* the request on r makes the try block of handleConvert throw: its body is
   JSON null, or its source cannot be converted to a string *)
ThrowsInside(r) ==
    \/ req[r].body.kind = "null"
    \/ /\ req[r].body.kind = "object"
       /\ ~TextInvalid(req[r].body.text)
       /\ Len(Trim(req[r].body.text.s)) > 0
       /\ Truthy(req[r].body.source)
       /\ ~CanStringify(req[r].body.source)

(* C23: an error thrown while a convert request is handled never leaves the
   handler: the response is 400 with the body {success: false, error:
   message}, the message being the engine's for that error. *)
C23_InternalErrorCaught ==
    \A r \in Slots :
        ConvertDone(r) =>
            /\ resp[r] # RejectedResponse
            /\ resp[r].status \in {200, 400}
            /\ ThrowsInside(r) =>
                  /\ resp[r].status = 400
                  /\ resp[r].headers = jsonHeaders
                  /\ DOMAIN resp[r].body = {"success", "error"}
                  /\ resp[r].body.success = FALSE
                  /\ \E rt \in Runtimes :
                        resp[r].body.error
                            = (IF req[r].body.kind = "null"
                               THEN rt.nullRead ELSE rt.toPrimitive)

(* a body of JSON null answered with the engine's message *)
C23_Witness ==
    \E r \in Slots :
        /\ ConvertDone(r)
        /\ req[r].body.kind = "null"
        /\ resp[r].status = 400
        /\ resp[r].body.error = JscRuntime.nullRead

(* the hour of the local time at instant d *)
LocalHour(d, off) == ((d + off) % 1440) \div 60

(* the part of a filename after the date and its space *)
TimeOfDay(filename) == SubSeq(filename, 14, Len(filename))

(* C24: for every hour h of 0..23 generateTimestamp prints ((h + 11) mod 12)
   + 1, never 0, and the suffix pm exactly when h >= 12: 0 is 12am, 12 is
   12pm, 13..23 are 1..11pm. *)
C24_TwelveHourClock ==
    /\ \A h \in 0..23 :
          /\ Hour12(h) = ((h + 11) % 12) + 1
          /\ Hour12(h) \in 1..12
          /\ AmPm(h) = <<"p", "m">> <=> h >= 12
          /\ AmPm(h) = <<"a", "m">> <=> h < 12
          /\ h >= 13 => Hour12(h) = h - 12
    /\ Hour12(0) = 12 /\ AmPm(0) = <<"a", "m">>
    /\ Hour12(12) = 12 /\ AmPm(12) = <<"p", "m">>
    /\ \A r \in Slots :
          ConvertOk(r) =>
              LET h == LocalHour(Instant(now), tz)
                  t == TimeOfDay(resp[r].body.filename)
              IN  /\ StartsWith(t, NumToStr(((h + 11) % 12) + 1) \o <<"-">>)
                  /\ SubSeq(t, Len(t) - 1, Len(t))
                        = (IF h >= 12 THEN <<"p", "m">> ELSE <<"a", "m">>)

(* a conversion at noon local time, named 12-..pm *)
C24_Witness ==
    \E r \in Slots :
        /\ ConvertOk(r)
        /\ LocalHour(Instant(now), tz) = 12
        /\ StartsWith(TimeOfDay(resp[r].body.filename), <<"1", "2", "-">>)
        /\ resp[r].body.filename[Len(resp[r].body.filename) - 1] = "p"

(* the YYYY-MM-DD date at the start of a filename, after the emoji marker *)
FilenameDate(filename) == SubSeq(filename, 3, 12)

(* C25: on success the date of the created field equals the date at the
   start of the filename. *)
C25_CreatedMatchesFilename ==
    \A r \in Slots :
        ConvertOk(r) =>
            CreatedField(resp[r].body.noteContent)
                = FilenameDate(resp[r].body.filename)

(* the frontmatter block of the note returned on r: the note without the
   blank line, the trimmed text and the final line break *)
FrontmatterOf(r) ==
    LET n == resp[r].body.noteContent
    IN  SubSeq(n, 1, Len(n) - Len(Trim(req[r].body.text.s)) - 3)

FrontmatterKeys ==
    {<<"t","y","p","e",":">>,
     <<"c","r","e","a","t","e","d",":">>,
     <<"s","o","u","r","c","e",":">>,
     <<"t","e","m","p","l","a","t","e","_","v","e","r","s","i","o","n",":">>,
     <<"a","r","e","a","s",":">>,
     <<"p","r","o","j","e","c","t","s",":">>,
     <<"s","u","m","m","a","r","y",":">>}

(* C26: on success, whatever the source, the frontmatter block has exactly
   two '---' lines, its first and its last, and between them seven lines,
   one for each of the seven keys. *)
C26_FrontmatterClosed ==
    \A r \in Slots :
        ConvertOk(r) =>
            LET lines == SplitLines(FrontmatterOf(r))
                markers == {i \in 1..Len(lines) : lines[i] = <<"-", "-", "-">>}
            IN  /\ markers = {1, Len(lines)}
                /\ Len(lines) = 9
                /\ \A k \in FrontmatterKeys :
                      Cardinality({i \in 1..Len(lines) :
                                      StartsWith(lines[i], k)}) = 1

(* two results agree on the outcome: both succeed, or both fail with the
   same error *)
SameOutcome(a, b) ==
    /\ a.success = b.success
    /\ ~a.success => a.error = b.error

(* C27: the outcome of a convert request with a parseable object body is
   decided by its text alone: the same text with any other source gets the
   same outcome. *)
C27_SourceNeverRejects ==
    \A r \in Slots :
        (ConvertDone(r) /\ req[r].body.kind = "object") =>
            \A s \in SourceValues :
                \E rt \in Runtimes :
                    SameOutcome(resp[r].body,
                                handleConvert(ObjectBody(req[r].body.text, s),
                                              Instant(now), Instant(now), tz, rt))

(* the status the method and the path alone determine off the convert
   branch *)
RouteStatus(method, pathname) ==
    IF method = "OPTIONS" THEN 204
    ELSE IF method = "GET" /\ pathname = "/" THEN 200
    ELSE 404

(* C28: only POST /convert reads the body and only it answers 400; on every
   other method and path the response is what the method and path
   determine, whether the body is malformed or not. *)
C28_BodyReadOnConvertOnly ==
    \A r \in Slots :
        LET convert == req[r].method = "POST" /\ req[r].pathname = "/convert"
        IN  /\ pc[r] = "reading" => convert
            /\ pc[r] = "done" =>
                  /\ resp[r].status = 400 => convert
                  /\ ~convert =>
                        /\ resp[r].status
                              = RouteStatus(req[r].method, req[r].pathname)
                        /\ resp[r] \in {PreflightResponse, NotFoundResponse,
                                        HealthResponse(Instant(now))}

(* a health check sent with a malformed body, answered 200 *)
C28_Witness ==
    \E r \in Slots :
        /\ pc[r] = "done"
        /\ req[r].method = "GET"
        /\ req[r].pathname = "/"
        /\ req[r].body = InvalidBody
        /\ resp[r].status = 200

====
